---- MODULE Spec2Model ----
(***************************************************************************)
(* Model of the schedulr policy engine (src/utils/schedulingAlgorithms.ts):*)
(* scheduleFCFS, scheduleSJF, schedulePriority, scheduleRoundRobin and the *)
(* shared calculateAverages.  One run of one policy is a behaviour: the    *)
(* initial state holds the arguments of the call, every loop iteration of  *)
(* the called function is one action, the return is the last action.       *)
(***************************************************************************)
EXTENDS Integers, Sequences, FiniteSets, TLC

\* Bounds of the explored inputs.
MaxProcs == 3
MaxPriorityProcs == 2
MaxArrival == 2
MaxPriorityArrival == 1
MaxBurst == 2
MaxPriority == 2
MaxQuantum == 2
MaxUncheckedProcs == 2
MaxPending == 1

\* useState(2) of CPUScheduler.
DefaultTimeQuantum == 2

VARIABLES
  algorithm,          \* which exported function is called
  processes,          \* argument: Process[]
  timeQuantum,        \* argument of scheduleRoundRobin
  reversePriority,    \* second argument the caller hands to schedulePriority
  pc,                 \* "call" | "loop" | "done"
  sortedProcesses,    \* scheduleFCFS local
  forEachIndex,       \* number of forEach callbacks already run (FCFS)
  remainingProcesses, \* scheduleSJF / schedulePriority local
  completedProcesses, \* scheduleSJF / schedulePriority local (Set of ids)
  processQueue,       \* scheduleRoundRobin local (objects carry remainingTime)
  readyQueue,         \* scheduleRoundRobin local: references into processQueue
  processIndex,       \* scheduleRoundRobin local
  currentTime,
  executionOrder,
  processMetrics,
  result,             \* the returned SchedulingResult
  ui                  \* the state of the CPUScheduler component

vars == <<algorithm, processes, timeQuantum, reversePriority, pc,
          sortedProcesses, forEachIndex, remainingProcesses,
          completedProcesses, processQueue, readyQueue, processIndex,
          currentTime, executionOrder, processMetrics, result, ui>>

inputs == <<algorithm, processes, timeQuantum, reversePriority>>

-----------------------------------------------------------------------------
\* Values

\* priority?: number  -- an optional field: present with a value, or absent.
Undefined == [defined |-> FALSE, value |-> 0]
Defined(n) == [defined |-> TRUE, value |-> n]

\* The number Infinity next to the finite numbers.
Infinity == [infinite |-> TRUE, value |-> 0]
Finite(n) == [infinite |-> FALSE, value |-> n]

\* a < b on numbers that may be Infinity (Infinity < Infinity is false).
NumLess(a, b) == ~a.infinite /\ (b.infinite \/ a.value < b.value)

Max(a, b) == IF a > b THEN a ELSE b
Min(a, b) == IF a < b THEN a ELSE b

Priorities == {Undefined} \cup {Defined(n) : n \in 1..MaxPriority}

Process(i, a, b, pr) ==
  [id |-> i, arrivalTime |-> a, burstTime |-> b, priority |-> pr]

\* The caller's list built from n attribute triples: the id of a process is
\* its position in the list, so the ids are unique.
ProcessList(n, f) == [i \in 1..n |-> Process(i, f[i][1], f[i][2], f[i][3])]

Attributes(prs) == (0..MaxArrival) \X (1..MaxBurst) \X prs

\* The attribute triples of a schedulePriority input: a priority field next
\* to the other two, drawn over a narrower range of arrival times.
PriorityAttributes ==
  (0..MaxPriorityArrival) \X (1..MaxBurst) \X Priorities

EmptyResult ==
  [executionOrder |-> <<>>, processMetrics |-> <<>>,
   averageWaitingTime |-> [num |-> 0, den |-> 1],
   averageTurnaroundTime |-> [num |-> 0, den |-> 1]]

\* The component CPUScheduler as it is mounted: the useState initial values.
\* The field computedWith is a history of the held result: the selection the
\* closure of runScheduler saw when it computed it (NoSelection: none held).
DefaultProcesses ==
  <<Process(1, 0, 4, Defined(2)), Process(2, 1, 3, Defined(1)),
    Process(3, 2, 1, Defined(3))>>

Selection(a, q, r) ==
  [algorithm |-> a, timeQuantum |-> q, reversePriority |-> r]

NoSelection == Selection("none", 0, FALSE)

InitialUI ==
  [reversePriority |-> FALSE,
   processes |-> DefaultProcesses,
   algorithm |-> "FCFS",
   timeQuantum |-> DefaultTimeQuantum,
   result |-> EmptyResult,
   isCalculating |-> FALSE,
   pending |-> <<>>,
   running |-> FALSE,
   computedWith |-> NoSelection]

-----------------------------------------------------------------------------
\* Helpers shared by the policies

\* { ...p, remainingTime: p.burstTime }
WithRemaining(p) ==
  [id |-> p.id, arrivalTime |-> p.arrivalTime, burstTime |-> p.burstTime,
   priority |-> p.priority, remainingTime |-> p.burstTime]

MapWithRemaining(ps) == [i \in 1..Len(ps) |-> WithRemaining(ps[i])]

\* (a, b) => a.arrivalTime - b.arrivalTime
CompareArrival(a, b) == a.arrivalTime - b.arrivalTime

\* Variant: an unstable sort that puts x before the elements it ties with.
RECURSIVE InsertSorted_TiesReversed(_, _)
InsertSorted_TiesReversed(s, x) ==
  IF s = <<>> THEN <<x>>
  ELSE IF CompareArrival(Head(s), x) >= 0 THEN <<x>> \o s
  ELSE <<Head(s)>> \o InsertSorted_TiesReversed(Tail(s), x)

\* Array.prototype.sort is stable: x goes before the first element that the
\* comparator orders strictly after it.
RECURSIVE InsertSorted(_, _)
InsertSorted(s, x) ==
  IF s = <<>> THEN <<x>>
  ELSE IF CompareArrival(Head(s), x) > 0 THEN <<x>> \o s
  ELSE <<Head(s)>> \o InsertSorted(Tail(s), x)

RECURSIVE SortByArrival(_)
SortByArrival(ps) ==
  IF ps = <<>> THEN <<>>
  ELSE InsertSorted(SortByArrival(SubSeq(ps, 1, Len(ps) - 1)), ps[Len(ps)])

\* Variant: the caller's array itself is sorted (processes.sort(...)).
SpreadSort_InPlace(ps) ==
  [array |-> SortByArrival(ps), sorted |-> SortByArrival(ps)]

\* [...processes].sort(...): sort works in place on the fresh array the
\* spread makes.  array is the caller's array after the statement, sorted
\* the array the statement yields.
SpreadSort(ps) == [array |-> ps, sorted |-> SortByArrival(ps)]

Block(id, s, e) == [processId |-> id, startTime |-> s, endTime |-> e]

RECURSIVE SumWaiting(_)
SumWaiting(pm) ==
  IF pm = <<>> THEN 0 ELSE Head(pm).waitingTime + SumWaiting(Tail(pm))

RECURSIVE SumTurnaround(_)
SumTurnaround(pm) ==
  IF pm = <<>> THEN 0 ELSE Head(pm).turnaroundTime + SumTurnaround(Tail(pm))

\* The averages are kept as exact fractions sum / length.
calculateAverages(eo, pm) ==
  [executionOrder |-> eo, processMetrics |-> pm,
   averageWaitingTime |-> [num |-> SumWaiting(pm), den |-> Len(pm)],
   averageTurnaroundTime |-> [num |-> SumTurnaround(pm), den |-> Len(pm)]]

-----------------------------------------------------------------------------
Init ==
  /\ \/ /\ algorithm \in {"FCFS", "SJF"}
        /\ \E n \in 1..MaxProcs :
             \E f \in [1..n -> Attributes({Undefined})] :
               processes = ProcessList(n, f)
        /\ timeQuantum = 0
        /\ reversePriority = FALSE
     \/ /\ algorithm = "Priority"
        /\ \E n \in 1..MaxPriorityProcs :
             \E f \in [1..n -> PriorityAttributes] :
               processes = ProcessList(n, f)
        /\ timeQuantum = 0
        /\ reversePriority \in BOOLEAN
     \/ /\ algorithm = "RoundRobin"
        /\ \E n \in 1..MaxProcs :
             \E f \in [1..n -> Attributes({Undefined})] :
               processes = ProcessList(n, f)
        /\ timeQuantum \in 1..MaxQuantum
        /\ reversePriority = FALSE
  /\ pc = "call"
  /\ sortedProcesses = <<>>
  /\ forEachIndex = 0
  /\ remainingProcesses = <<>>
  /\ completedProcesses = {}
  /\ processQueue = <<>>
  /\ readyQueue = <<>>
  /\ processIndex = 0
  /\ currentTime = 0
  /\ executionOrder = <<>>
  /\ processMetrics = <<>>
  /\ result = EmptyResult
  /\ ui = InitialUI

-----------------------------------------------------------------------------
\* scheduleFCFS

\* Variants: the block starts at the arrival, or at the clock, whichever
\* the other says.
FCFSStartTime_AtArrival(now, arrival) == arrival
FCFSStartTime_AtClock(now, arrival) == now

FCFSStartTime(now, arrival) == Max(now, arrival)

FCFSMetrics(p, startTime, endTime) ==
  [id |-> p.id, arrivalTime |-> p.arrivalTime, burstTime |-> p.burstTime,
   completionTime |-> endTime,
   turnaroundTime |-> endTime - p.arrivalTime,
   waitingTime |-> startTime - p.arrivalTime,
   priority |-> p.priority]

FCFSCall ==
  /\ pc = "call" /\ algorithm = "FCFS"
  /\ sortedProcesses' = SpreadSort(processes).sorted
  /\ processes' = SpreadSort(processes).array
  /\ pc' = "loop"
  /\ UNCHANGED <<ui, algorithm, timeQuantum, reversePriority, forEachIndex,
                 remainingProcesses, completedProcesses, processQueue,
                 readyQueue, processIndex, currentTime,
                 executionOrder, processMetrics, result>>

FCFSForEach ==
  /\ pc = "loop" /\ algorithm = "FCFS"
  /\ forEachIndex < Len(sortedProcesses)
  /\ LET process == sortedProcesses[forEachIndex + 1]
         startTime == FCFSStartTime(currentTime, process.arrivalTime)
         endTime == startTime + process.burstTime
     IN /\ executionOrder' =
             Append(executionOrder, Block(process.id, startTime, endTime))
        /\ processMetrics' =
             Append(processMetrics, FCFSMetrics(process, startTime, endTime))
        /\ currentTime' = endTime
  /\ forEachIndex' = forEachIndex + 1
  /\ UNCHANGED <<ui, inputs, pc, sortedProcesses, remainingProcesses,
                 completedProcesses, processQueue, readyQueue, processIndex,
                 result>>

FCFSReturn ==
  /\ pc = "loop" /\ algorithm = "FCFS"
  /\ forEachIndex = Len(sortedProcesses)
  /\ result' = calculateAverages(executionOrder, processMetrics)
  /\ pc' = "done"
  /\ UNCHANGED <<ui, inputs, sortedProcesses, forEachIndex, remainingProcesses,
                 completedProcesses, processQueue, readyQueue, processIndex,
                 currentTime, executionOrder, processMetrics>>

-----------------------------------------------------------------------------
\* scheduleSJF

\* Variant: the idle branch leaves the clock where it is.
IdleAdvance_Stalls(now) == now

\* currentTime++
IdleAdvance(now) == now + 1

\* Variant: a process is available only after the tick of its arrival.
IsAvailable_StrictlyBefore(p, now, completed) ==
  p.arrivalTime < now /\ p.id \notin completed

\* p.arrivalTime <= currentTime && !completedProcesses.has(p.id)
IsAvailable(p, now, completed) ==
  p.arrivalTime <= now /\ p.id \notin completed

AvailableProcesses(ps, now, completed) ==
  LET Test(p) == IsAvailable(p, now, completed) IN SelectSeq(ps, Test)

\* Variant: the loop stops one process early.
LoopContinues_StopsEarly(completed, ps) ==
  Cardinality(completed) + 1 < Len(ps)

\* completedProcesses.size < processes.length
LoopContinues(completed, ps) == Cardinality(completed) < Len(ps)

\* Variant: <= in place of <, the last of the shortest jobs wins.
ShorterJob_LastOfTies(min, current) ==
  IF current.burstTime <= min.burstTime THEN current ELSE min

\* (min, current) => current.burstTime < min.burstTime ? current : min
ShorterJob(min, current) ==
  IF current.burstTime < min.burstTime THEN current ELSE min

\* reduce without an initial value: the accumulator starts as the first
\* element and the callback runs on the others, left to right.
RECURSIVE ReduceShorterJob(_, _)
ReduceShorterJob(min, rest) ==
  IF rest = <<>> THEN min
  ELSE ReduceShorterJob(ShorterJob(min, Head(rest)), Tail(rest))

ShortestJob(available) == ReduceShorterJob(Head(available), Tail(available))

\* Variant: the waiting time is counted from time 0.
SJFMetrics_WaitFromZero(p, startTime, endTime) ==
  [id |-> p.id, arrivalTime |-> p.arrivalTime, burstTime |-> p.burstTime,
   completionTime |-> endTime,
   turnaroundTime |-> endTime - p.arrivalTime,
   waitingTime |-> startTime,
   priority |-> p.priority]

SJFMetrics(p, startTime, endTime) ==
  [id |-> p.id, arrivalTime |-> p.arrivalTime, burstTime |-> p.burstTime,
   completionTime |-> endTime,
   turnaroundTime |-> endTime - p.arrivalTime,
   waitingTime |-> startTime - p.arrivalTime,
   priority |-> p.priority]

SJFCall ==
  /\ pc = "call" /\ algorithm = "SJF"
  /\ remainingProcesses' = MapWithRemaining(processes)
  /\ pc' = "loop"
  /\ UNCHANGED <<ui, inputs, sortedProcesses, forEachIndex, completedProcesses,
                 processQueue, readyQueue, processIndex, currentTime,
                 executionOrder, processMetrics, result>>

SJFIdle ==
  /\ pc = "loop" /\ algorithm = "SJF"
  /\ LoopContinues(completedProcesses, processes)
  /\ AvailableProcesses(remainingProcesses, currentTime, completedProcesses)
       = <<>>
  /\ currentTime' = IdleAdvance(currentTime)
  /\ UNCHANGED <<ui, inputs, pc, sortedProcesses, forEachIndex,
                 remainingProcesses, completedProcesses, processQueue,
                 readyQueue, processIndex, executionOrder, processMetrics,
                 result>>

SJFRun ==
  /\ pc = "loop" /\ algorithm = "SJF"
  /\ LoopContinues(completedProcesses, processes)
  /\ LET availableProcesses ==
           AvailableProcesses(remainingProcesses, currentTime,
                              completedProcesses)
     IN /\ availableProcesses # <<>>
        /\ LET shortestJob == ShortestJob(availableProcesses)
               startTime == currentTime
               endTime == startTime + shortestJob.burstTime
           IN /\ executionOrder' =
                   Append(executionOrder,
                          Block(shortestJob.id, startTime, endTime))
              /\ processMetrics' =
                   Append(processMetrics,
                          SJFMetrics(shortestJob, startTime, endTime))
              /\ completedProcesses' =
                   completedProcesses \cup {shortestJob.id}
              /\ currentTime' = endTime
  /\ UNCHANGED <<ui, inputs, pc, sortedProcesses, forEachIndex,
                 remainingProcesses, processQueue, readyQueue, processIndex,
                 result>>

SJFReturn ==
  /\ pc = "loop" /\ algorithm = "SJF"
  /\ ~LoopContinues(completedProcesses, processes)
  /\ result' = calculateAverages(executionOrder, processMetrics)
  /\ pc' = "done"
  /\ UNCHANGED <<ui, inputs, sortedProcesses, forEachIndex, remainingProcesses,
                 completedProcesses, processQueue, readyQueue, processIndex,
                 currentTime, executionOrder, processMetrics>>

-----------------------------------------------------------------------------
\* schedulePriority(processes): the function declares one parameter, so the
\* reversePriority argument of the caller is dropped at the call.

\* Variant: a missing priority counts as 0.
PriorityOrInfinity_ZeroDefault(pr) ==
  IF pr.defined THEN Finite(pr.value) ELSE Finite(0)

\* p.priority ?? Infinity
PriorityOrInfinity(pr) == IF pr.defined THEN Finite(pr.value) ELSE Infinity

\* (min, current) => currentPriority < minPriority ? current : min
HigherPriority(min, current) ==
  LET minPriority == PriorityOrInfinity(min.priority)
      currentPriority == PriorityOrInfinity(current.priority)
  IN IF NumLess(currentPriority, minPriority) THEN current ELSE min

RECURSIVE ReduceHigherPriority(_, _)
ReduceHigherPriority(min, rest) ==
  IF rest = <<>> THEN min
  ELSE ReduceHigherPriority(HigherPriority(min, Head(rest)), Tail(rest))

HighestPriority(available) ==
  ReduceHigherPriority(Head(available), Tail(available))

PriorityMetrics(p, startTime, endTime) ==
  [id |-> p.id, arrivalTime |-> p.arrivalTime, burstTime |-> p.burstTime,
   completionTime |-> endTime,
   turnaroundTime |-> endTime - p.arrivalTime,
   waitingTime |-> startTime - p.arrivalTime,
   priority |-> p.priority]

PriorityCall ==
  /\ pc = "call" /\ algorithm = "Priority"
  /\ remainingProcesses' = MapWithRemaining(processes)
  /\ pc' = "loop"
  /\ UNCHANGED <<ui, inputs, sortedProcesses, forEachIndex, completedProcesses,
                 processQueue, readyQueue, processIndex, currentTime,
                 executionOrder, processMetrics, result>>

PriorityIdle ==
  /\ pc = "loop" /\ algorithm = "Priority"
  /\ LoopContinues(completedProcesses, processes)
  /\ AvailableProcesses(remainingProcesses, currentTime, completedProcesses)
       = <<>>
  /\ currentTime' = IdleAdvance(currentTime)
  /\ UNCHANGED <<ui, inputs, pc, sortedProcesses, forEachIndex,
                 remainingProcesses, completedProcesses, processQueue,
                 readyQueue, processIndex, executionOrder, processMetrics,
                 result>>

PriorityRun ==
  /\ pc = "loop" /\ algorithm = "Priority"
  /\ LoopContinues(completedProcesses, processes)
  /\ LET availableProcesses ==
           AvailableProcesses(remainingProcesses, currentTime,
                              completedProcesses)
     IN /\ availableProcesses # <<>>
        /\ LET highestPriority == HighestPriority(availableProcesses)
               startTime == currentTime
               endTime == startTime + highestPriority.burstTime
           IN /\ executionOrder' =
                   Append(executionOrder,
                          Block(highestPriority.id, startTime, endTime))
              /\ processMetrics' =
                   Append(processMetrics,
                          PriorityMetrics(highestPriority, startTime, endTime))
              /\ completedProcesses' =
                   completedProcesses \cup {highestPriority.id}
              /\ currentTime' = endTime
  /\ UNCHANGED <<ui, inputs, pc, sortedProcesses, forEachIndex,
                 remainingProcesses, processQueue, readyQueue, processIndex,
                 result>>

PriorityReturn ==
  /\ pc = "loop" /\ algorithm = "Priority"
  /\ ~LoopContinues(completedProcesses, processes)
  /\ result' = calculateAverages(executionOrder, processMetrics)
  /\ pc' = "done"
  /\ UNCHANGED <<ui, inputs, sortedProcesses, forEachIndex, remainingProcesses,
                 completedProcesses, processQueue, readyQueue, processIndex,
                 currentTime, executionOrder, processMetrics>>

-----------------------------------------------------------------------------
\* scheduleRoundRobin.  readyQueue holds references to the objects of
\* processQueue: a reference is the object's position in processQueue, and
\* processIndex counts the objects already pushed.

\* Variant: the scan takes only the processes that arrived before the clock.
RECURSIVE ArrivalScan_StrictlyBefore(_, _, _)
ArrivalScan_StrictlyBefore(pq, idx, now) ==
  IF idx < Len(pq) /\ pq[idx + 1].arrivalTime < now
  THEN ArrivalScan_StrictlyBefore(pq, idx + 1, now)
  ELSE idx

\* while (processIndex < processQueue.length &&
\*        processQueue[processIndex].arrivalTime <= currentTime) processIndex++
RECURSIVE ArrivalScan(_, _, _)
ArrivalScan(pq, idx, now) ==
  IF idx < Len(pq) /\ pq[idx + 1].arrivalTime <= now
  THEN ArrivalScan(pq, idx + 1, now)
  ELSE idx

\* The references the scan pushes when it moves processIndex from -> to.
Arrived(from, to) == [k \in 1..(to - from) |-> from + k]

\* processIndex < processQueue.length || readyQueue.length > 0
RRLoopContinues(idx, pq, rq) == idx < Len(pq) \/ Len(rq) > 0

\* Variant: the slice runs the process to its end, whatever the quantum.
ExecutionTime_ToCompletion(quantum, remainingTime) == remainingTime

\* Variant: the slice always lasts the whole quantum.
ExecutionTime_WholeQuantum(quantum, remainingTime) == quantum

\* Math.min(timeQuantum, currentProcess.remainingTime)
ExecutionTime(quantum, remainingTime) == Min(quantum, remainingTime)

\* Variant: the process is put at the head of the queue (unshift for push).
Requeue_AtFront(rest, arrived, current) == <<current>> \o rest \o arrived

\* Variant: the process is pushed back before the second arrival scan.
Requeue_CurrentFirst(rest, arrived, current) ==
  rest \o <<current>> \o arrived

\* The ready queue after a slice of a process that has time left: the
\* second arrival scan pushes first, then the process itself is pushed.
Requeue(rest, arrived, current) == rest \o arrived \o <<current>>

\* Variant: a process with no time left still counts as unfinished.
HasTimeLeft_OrNone(remainingTime) == remainingTime >= 0

\* currentProcess.remainingTime > 0
HasTimeLeft(remainingTime) == remainingTime > 0

RRMetrics(p, endTime) ==
  [id |-> p.id, arrivalTime |-> p.arrivalTime, burstTime |-> p.burstTime,
   completionTime |-> endTime,
   turnaroundTime |-> endTime - p.arrivalTime,
   waitingTime |-> endTime - p.arrivalTime - p.burstTime,
   priority |-> p.priority]

RRCall ==
  /\ pc = "call" /\ algorithm = "RoundRobin"
  /\ processQueue' = MapWithRemaining(SpreadSort(processes).sorted)
  /\ processes' = SpreadSort(processes).array
  /\ pc' = "loop"
  /\ UNCHANGED <<ui, algorithm, timeQuantum, reversePriority, sortedProcesses,
                 forEachIndex, remainingProcesses, completedProcesses, readyQueue, processIndex, currentTime,
                 executionOrder, processMetrics, result>>

RRIdle ==
  /\ pc = "loop" /\ algorithm = "RoundRobin"
  /\ RRLoopContinues(processIndex, processQueue, readyQueue)
  /\ LET scanned == ArrivalScan(processQueue, processIndex, currentTime)
         queue == readyQueue \o Arrived(processIndex, scanned)
     IN /\ Len(queue) = 0
        /\ processIndex' = scanned
        /\ readyQueue' = queue
  /\ currentTime' = IdleAdvance(currentTime)
  /\ UNCHANGED <<ui, inputs, pc, sortedProcesses, forEachIndex,
                 remainingProcesses, completedProcesses, processQueue,
                 executionOrder, processMetrics, result>>

RRSlice ==
  /\ pc = "loop" /\ algorithm = "RoundRobin"
  /\ RRLoopContinues(processIndex, processQueue, readyQueue)
  /\ LET scanned == ArrivalScan(processQueue, processIndex, currentTime)
         queue == readyQueue \o Arrived(processIndex, scanned)
     IN /\ Len(queue) # 0
        /\ LET current == Head(queue)
               currentProcess == processQueue[current]
               executionTime ==
                 ExecutionTime(timeQuantum, currentProcess.remainingTime)
               startTime == currentTime
               endTime == startTime + executionTime
               remainingTime == currentProcess.remainingTime - executionTime
               rescanned == ArrivalScan(processQueue, scanned, endTime)
           IN /\ executionOrder' =
                   Append(executionOrder,
                          Block(currentProcess.id, startTime, endTime))
              /\ processQueue' =
                   [processQueue EXCEPT ![current].remainingTime =
                                           remainingTime]
              /\ currentTime' = endTime
              /\ processIndex' = rescanned
              /\ IF HasTimeLeft(remainingTime)
                 THEN /\ readyQueue' =
                           Requeue(Tail(queue), Arrived(scanned, rescanned),
                                   current)
                      /\ UNCHANGED processMetrics
                 ELSE /\ readyQueue' =
                           Tail(queue) \o Arrived(scanned, rescanned)
                      /\ processMetrics' =
                           Append(processMetrics,
                                  RRMetrics(currentProcess, endTime))
  /\ UNCHANGED <<ui, inputs, pc, sortedProcesses, forEachIndex,
                 remainingProcesses, completedProcesses, result>>

RRReturn ==
  /\ pc = "loop" /\ algorithm = "RoundRobin"
  /\ ~RRLoopContinues(processIndex, processQueue, readyQueue)
  /\ result' = calculateAverages(executionOrder, processMetrics)
  /\ pc' = "done"
  /\ UNCHANGED <<ui, inputs, sortedProcesses, forEachIndex, remainingProcesses,
                 completedProcesses, processQueue, readyQueue, processIndex,
                 currentTime, executionOrder, processMetrics>>

-----------------------------------------------------------------------------
Next ==
  \/ FCFSCall
  \/ FCFSForEach
  \/ FCFSReturn
  \/ SJFCall
  \/ SJFIdle
  \/ SJFRun
  \/ SJFReturn
  \/ PriorityCall
  \/ PriorityIdle
  \/ PriorityRun
  \/ PriorityReturn
  \/ RRCall
  \/ RRIdle
  \/ RRSlice
  \/ RRReturn

Spec == Init /\ [][Next]_vars

\* A call runs to its end without being suspended: while a step of the
\* called function is possible, one is taken.
FairSpec == Spec /\ WF_vars(Next)
-----------------------------------------------------------------------------
\* The policies called with arguments nothing has checked: the functions
\* validate nothing themselves and runScheduler checks only that the list is
\* not empty, so ids may repeat and the quantum may be zero or negative.

\* A list of n records whose ids g picks, so two records may share an id.
UncheckedList(n, g, f) ==
  [i \in 1..n |-> Process(g[i], f[i][1], f[i][2], f[i][3])]

UncheckedInit ==
  /\ algorithm \in {"FCFS", "SJF", "Priority", "RoundRobin"}
  /\ \E n \in 1..MaxUncheckedProcs :
       \E g \in [1..n -> 1..n] :
         \E f \in [1..n -> Attributes({Undefined, Defined(1)})] :
           processes = UncheckedList(n, g, f)
  /\ timeQuantum \in (IF algorithm = "RoundRobin"
                      THEN {-1, 0} \cup (1..MaxQuantum) ELSE {0})
  /\ reversePriority = FALSE
  /\ pc = "call"
  /\ sortedProcesses = <<>>
  /\ forEachIndex = 0
  /\ remainingProcesses = <<>>
  /\ completedProcesses = {}
  /\ processQueue = <<>>
  /\ readyQueue = <<>>
  /\ processIndex = 0
  /\ currentTime = 0
  /\ executionOrder = <<>>
  /\ processMetrics = <<>>
  /\ result = EmptyResult
  /\ ui = InitialUI

\* A run that never returns is followed this far and no further: one block
\* and one tick more than any run on valid arguments of this size needs.
BlockCap == MaxUncheckedProcs * MaxBurst + 1
ClockCap == MaxArrival + MaxUncheckedProcs * MaxBurst + 1

WithinCaps ==
  /\ Len(executionOrder) < BlockCap
  /\ currentTime < ClockCap

UncheckedNext ==
  \/ WithinCaps /\ FCFSCall
  \/ WithinCaps /\ FCFSForEach
  \/ WithinCaps /\ FCFSReturn
  \/ WithinCaps /\ SJFCall
  \/ WithinCaps /\ SJFIdle
  \/ WithinCaps /\ SJFRun
  \/ WithinCaps /\ SJFReturn
  \/ WithinCaps /\ PriorityCall
  \/ WithinCaps /\ PriorityIdle
  \/ WithinCaps /\ PriorityRun
  \/ WithinCaps /\ PriorityReturn
  \/ WithinCaps /\ RRCall
  \/ WithinCaps /\ RRIdle
  \/ WithinCaps /\ RRSlice
  \/ WithinCaps /\ RRReturn

UncheckedSpec == UncheckedInit /\ [][UncheckedNext]_vars

-----------------------------------------------------------------------------
\* The caller: the component CPUScheduler (components/CPUScheduler.tsx).
\* Every event handler runs to completion before the next event; the policy
\* call inside runScheduler is synchronous, so while it runs (ui.running) no
\* other handler is taken.  Of the six policies runScheduler dispatches to,
\* the four that schedulingAlgorithms.ts exports are selectable here.

engineVars == <<algorithm, processes, timeQuantum, reversePriority, pc,
                sortedProcesses, forEachIndex, remainingProcesses,
                completedProcesses, processQueue, readyQueue, processIndex,
                currentTime, executionOrder, processMetrics, result>>

Algorithms == {"FCFS", "SJF", "Priority", "RoundRobin"}

\* The lists ProcessForm hands to onProcessesChange.
FormLists ==
  {DefaultProcesses,
   <<>>,
   <<Process(1, 1, 1, Defined(1))>>,
   <<Process(1, 0, 1, Undefined)>>}

\* What a closure of runScheduler sees: the state of the render it was
\* created in.
Closure ==
  [algorithm |-> ui.algorithm, processes |-> ui.processes,
   timeQuantum |-> ui.timeQuantum, reversePriority |-> ui.reversePriority]

\* setResult({executionOrder: [], ...}) of the effect and of resetScheduler.
ClearResult(u) ==
  [u EXCEPT !.result = EmptyResult, !.computedWith = NoSelection]

\* processes.some(p => p.priority === undefined)
SomePriorityUndefined(ps) == \E i \in 1..Len(ps) : ~ps[i].priority.defined

UIInit ==
  /\ ui = InitialUI
  /\ algorithm = "FCFS"
  /\ processes = <<>>
  /\ timeQuantum = 0
  /\ reversePriority = FALSE
  /\ pc = "done"
  /\ sortedProcesses = <<>>
  /\ forEachIndex = 0
  /\ remainingProcesses = <<>>
  /\ completedProcesses = {}
  /\ processQueue = <<>>
  /\ readyQueue = <<>>
  /\ processIndex = 0
  /\ currentTime = 0
  /\ executionOrder = <<>>
  /\ processMetrics = <<>>
  /\ result = EmptyResult

\* onAlgorithmChange={setAlgorithm}, then the effect on [algorithm, ...].
SetAlgorithm ==
  /\ ~ui.running
  /\ \E a \in Algorithms \ {ui.algorithm} :
       ui' = ClearResult([ui EXCEPT !.algorithm = a])
  /\ UNCHANGED engineVars

\* onTimeQuantumChange={setTimeQuantum}, then the effect.
SetTimeQuantum ==
  /\ ~ui.running
  /\ \E q \in (1..MaxQuantum) \ {ui.timeQuantum} :
       ui' = ClearResult([ui EXCEPT !.timeQuantum = q])
  /\ UNCHANGED engineVars

\* onReversePriorityChange={setReversePriority}, then the effect.
SetReversePriority ==
  /\ ~ui.running
  /\ ui' = ClearResult([ui EXCEPT !.reversePriority = ~ui.reversePriority])
  /\ UNCHANGED engineVars

\* onProcessesChange={setProcesses}: no effect depends on processes.
SetProcesses ==
  /\ ~ui.running
  /\ \E l \in FormLists \ {ui.processes} :
       ui' = [ui EXCEPT !.processes = l]
  /\ UNCHANGED engineVars

\* runScheduler up to its await: the closure waits for the 500 ms timer.
RunScheduler ==
  /\ ~ui.running
  /\ ui.processes # <<>>
  /\ Len(ui.pending) < MaxPending
  /\ ui' = [ui EXCEPT !.isCalculating = TRUE,
                      !.pending = Append(@, Closure)]
  /\ UNCHANGED engineVars

\* The timer fires, case 'Priority' with a missing priority: toast, return.
TimerMissingPriority ==
  /\ ~ui.running
  /\ ui.pending # <<>>
  /\ Head(ui.pending).algorithm = "Priority"
  /\ SomePriorityUndefined(Head(ui.pending).processes)
  /\ ui' = [ui EXCEPT !.isCalculating = FALSE, !.pending = Tail(@)]
  /\ UNCHANGED engineVars

\* The timer fires and the switch calls the policy of the closure.
TimerCallsPolicy ==
  /\ ~ui.running
  /\ ui.pending # <<>>
  /\ LET c == Head(ui.pending) IN
       /\ ~(c.algorithm = "Priority" /\ SomePriorityUndefined(c.processes))
       /\ algorithm' = c.algorithm
       /\ processes' = c.processes
       /\ timeQuantum' =
            (IF c.algorithm = "RoundRobin" THEN c.timeQuantum ELSE 0)
       /\ reversePriority' =
            (IF c.algorithm = "Priority" THEN c.reversePriority ELSE FALSE)
  /\ pc' = "call"
  /\ ui' = [ui EXCEPT !.running = TRUE]
  /\ UNCHANGED <<sortedProcesses, forEachIndex, remainingProcesses,
                 completedProcesses, processQueue, readyQueue, processIndex,
                 currentTime, executionOrder, processMetrics, result>>

\* setResult(schedulingResult) and the finally block; the frame of the
\* policy call is gone.
StoreResult ==
  /\ ui.running
  /\ pc = "done"
  /\ LET c == Head(ui.pending) IN
       ui' = [ui EXCEPT
                !.result = result,
                !.computedWith =
                   Selection(c.algorithm, c.timeQuantum, c.reversePriority),
                !.isCalculating = FALSE,
                !.running = FALSE,
                !.pending = Tail(@)]
  /\ algorithm' = "FCFS"
  /\ processes' = <<>>
  /\ timeQuantum' = 0
  /\ reversePriority' = FALSE
  /\ pc' = "done"
  /\ sortedProcesses' = <<>>
  /\ forEachIndex' = 0
  /\ remainingProcesses' = <<>>
  /\ completedProcesses' = {}
  /\ processQueue' = <<>>
  /\ readyQueue' = <<>>
  /\ processIndex' = 0
  /\ currentTime' = 0
  /\ executionOrder' = <<>>
  /\ processMetrics' = <<>>
  /\ result' = EmptyResult

\* resetScheduler: reversePriority is not among the values it resets.
ResetScheduler ==
  /\ ~ui.running
  /\ ui' = ClearResult([ui EXCEPT !.processes = DefaultProcesses,
                                  !.algorithm = "FCFS",
                                  !.timeQuantum = DefaultTimeQuantum])
  /\ UNCHANGED engineVars

UINext ==
  \/ SetAlgorithm
  \/ SetTimeQuantum
  \/ SetReversePriority
  \/ SetProcesses
  \/ RunScheduler
  \/ TimerMissingPriority
  \/ TimerCallsPolicy
  \/ StoreResult
  \/ ResetScheduler
  \/ FCFSCall
  \/ FCFSForEach
  \/ FCFSReturn
  \/ SJFCall
  \/ SJFIdle
  \/ SJFRun
  \/ SJFReturn
  \/ PriorityCall
  \/ PriorityIdle
  \/ PriorityRun
  \/ PriorityReturn
  \/ RRCall
  \/ RRIdle
  \/ RRSlice
  \/ RRReturn

UISpec == UIInit /\ [][UINext]_vars

-----------------------------------------------------------------------------
\* Vocabulary of the properties

Done == pc = "done"

\* Position in the caller's list of the process with this id.
InputIndex(id) == CHOOSE i \in DOMAIN processes : processes[i].id = id

InputProcess(id) == processes[InputIndex(id)]

BlocksOf(eo, id) == {k \in DOMAIN eo : eo[k].processId = id}

RECURSIVE SumBlocks(_, _)
SumBlocks(eo, id) ==
  IF eo = <<>> THEN 0
  ELSE (IF Head(eo).processId = id
        THEN Head(eo).endTime - Head(eo).startTime ELSE 0)
       + SumBlocks(Tail(eo), id)

LastBlock(eo, id) ==
  CHOOSE k \in BlocksOf(eo, id) : \A j \in BlocksOf(eo, id) : j <= k

\* The processes (positions in the caller's list) that have arrived when
\* block k starts and have no block before it.
Eligible(eo, k) ==
  {i \in DOMAIN processes :
     /\ processes[i].arrivalTime <= eo[k].startTime
     /\ \A j \in 1..(k - 1) : eo[j].processId # processes[i].id}

OneBlockEach(eo) ==
  /\ Len(eo) = Len(processes)
  /\ \A i \in DOMAIN processes : Cardinality(BlocksOf(eo, processes[i].id)) = 1

-----------------------------------------------------------------------------
\* C1: in the result of every policy, for every process id the lengths
\* (endTime - startTime) of the execution blocks carrying that id add up to
\* the burstTime of that process.
C1_BurstConserved ==
  Done =>
    \A i \in DOMAIN processes :
      SumBlocks(result.executionOrder, processes[i].id)
        = processes[i].burstTime

\* A Round-Robin result in which some process ran in more than one block.
C1_Witness ==
  /\ Done /\ algorithm = "RoundRobin"
  /\ \E i \in DOMAIN processes :
       Cardinality(BlocksOf(result.executionOrder, processes[i].id)) >= 2

\* C2: in the result of every policy the blocks are listed in non-decreasing
\* startTime order and no two of them overlap as half-open intervals: each
\* block starts at or after the end of the block listed before it.
C2_OrderedNonOverlapping ==
  Done =>
    LET eo == result.executionOrder
    IN /\ \A k \in 2..Len(eo) :
            /\ eo[k - 1].startTime <= eo[k].startTime
            /\ eo[k - 1].endTime <= eo[k].startTime
       /\ \A j, k \in DOMAIN eo :
            j < k => eo[j].endTime <= eo[k].startTime

\* An FCFS result where a later-listed process arrived while an earlier one
\* was running (laid at its arrival time the two blocks would overlap).
C2_Witness ==
  /\ Done /\ algorithm = "FCFS"
  /\ LET eo == result.executionOrder
     IN \E k \in 2..Len(eo) :
          InputProcess(eo[k].processId).arrivalTime < eo[k - 1].endTime

\* C3: in the result of every policy processMetrics has exactly one entry
\* per input process id: none twice, none missing.
C3_OneMetricsEntryPerProcess ==
  Done =>
    LET pm == result.processMetrics
    IN /\ Len(pm) = Len(processes)
       /\ \A i \in DOMAIN processes :
            Cardinality({k \in DOMAIN pm : pm[k].id = processes[i].id}) = 1

\* An SJF result for several processes whose metrics are listed in another
\* order than the input.
C3_Witness ==
  /\ Done /\ algorithm = "SJF" /\ Len(processes) >= 2
  /\ \E k \in DOMAIN result.processMetrics :
       result.processMetrics[k].id # processes[k].id

\* C4: in the result of every policy every metrics entry has
\* waitingTime >= 0, turnaroundTime >= burstTime and
\* completionTime >= arrivalTime + burstTime.
C4_MetricsLowerBounds ==
  Done =>
    \A k \in DOMAIN result.processMetrics :
      LET m == result.processMetrics[k]
          p == InputProcess(m.id)
      IN /\ m.waitingTime >= 0
         /\ m.turnaroundTime >= p.burstTime
         /\ m.completionTime >= p.arrivalTime + p.burstTime

\* An FCFS result where the CPU idled before a process (the process starts
\* exactly at its arrival, later than the clock) and another process waited.
C4_Witness ==
  /\ Done /\ algorithm = "FCFS"
  /\ LET eo == result.executionOrder
     IN \E k \in 2..Len(eo) :
          eo[k].startTime > eo[k - 1].endTime
  /\ \E k \in DOMAIN result.processMetrics :
       result.processMetrics[k].waitingTime > 0

\* C5: in the result of every policy every metrics entry is derived from the
\* timeline: completionTime is the endTime of the last block of the process,
\* turnaroundTime = completionTime - arrivalTime and
\* waitingTime = turnaroundTime - burstTime.
C5_MetricsDerivedFromTimeline ==
  Done =>
    \A k \in DOMAIN result.processMetrics :
      LET m == result.processMetrics[k]
          p == InputProcess(m.id)
          eo == result.executionOrder
      IN /\ BlocksOf(eo, m.id) # {}
         /\ m.completionTime = eo[LastBlock(eo, m.id)].endTime
         /\ m.turnaroundTime = m.completionTime - p.arrivalTime
         /\ m.waitingTime = m.turnaroundTime - p.burstTime
         /\ m.arrivalTime = p.arrivalTime
         /\ m.burstTime = p.burstTime

\* An SJF result with a process that arrived after time 0 and had to wait.
C5_Witness ==
  /\ Done /\ algorithm = "SJF"
  /\ \E k \in DOMAIN result.processMetrics :
       /\ result.processMetrics[k].arrivalTime > 0
       /\ result.processMetrics[k].waitingTime > 0

\* C6: scheduleFCFS runs the processes in ascending arrivalTime order,
\* equal arrivalTimes in input order; each process gets one block that
\* starts at max(end of the previous block or 0, its arrivalTime) and lasts
\* burstTime.
C6_FCFSTimeline ==
  (Done /\ algorithm = "FCFS") =>
    LET eo == result.executionOrder
    IN /\ OneBlockEach(eo)
       /\ \A j, k \in DOMAIN eo :
            j < k =>
              LET pj == InputProcess(eo[j].processId)
                  pk == InputProcess(eo[k].processId)
              IN \/ pj.arrivalTime < pk.arrivalTime
                 \/ /\ pj.arrivalTime = pk.arrivalTime
                    /\ InputIndex(eo[j].processId)
                         < InputIndex(eo[k].processId)
       /\ \A k \in DOMAIN eo :
            LET p == InputProcess(eo[k].processId)
                previousEnd == IF k = 1 THEN 0 ELSE eo[k - 1].endTime
            IN /\ eo[k].startTime = Max(previousEnd, p.arrivalTime)
               /\ eo[k].endTime = eo[k].startTime + p.burstTime

\* An FCFS result for an input that was not in arrival order and held two
\* processes with the same arrivalTime.
C6_Witness ==
  /\ Done /\ algorithm = "FCFS"
  /\ \E i, j \in DOMAIN processes :
       i < j /\ processes[i].arrivalTime > processes[j].arrivalTime
  /\ \E i, j \in DOMAIN processes :
       i < j /\ processes[i].arrivalTime = processes[j].arrivalTime

\* C7: in scheduleSJF every block starts at a decision point where the
\* selected process has the smallest burstTime among the processes that have
\* arrived and are not completed, the earliest in input order among those
\* with that burstTime; it runs in one block of length burstTime.
C7_SJFSelection ==
  (Done /\ algorithm = "SJF") =>
    LET eo == result.executionOrder
    IN /\ OneBlockEach(eo)
       /\ \A k \in DOMAIN eo :
            LET s == InputIndex(eo[k].processId)
            IN /\ s \in Eligible(eo, k)
               /\ k > 1 => eo[k].startTime >= eo[k - 1].endTime
               /\ \A e \in Eligible(eo, k) :
                    /\ processes[s].burstTime <= processes[e].burstTime
                    /\ processes[e].burstTime = processes[s].burstTime
                         => s <= e
               /\ eo[k].endTime = eo[k].startTime + processes[s].burstTime

\* An SJF result with a decision where a longer job earlier in the input was
\* passed over and two later jobs tied for the smallest burstTime.
C7_Witness ==
  /\ Done /\ algorithm = "SJF"
  /\ LET eo == result.executionOrder
     IN \E k \in DOMAIN eo :
          LET s == InputIndex(eo[k].processId)
          IN /\ \E e \in Eligible(eo, k) :
                  e < s /\ processes[e].burstTime > processes[s].burstTime
             /\ \E e \in Eligible(eo, k) :
                  e > s /\ processes[e].burstTime = processes[s].burstTime

\* C8: schedulePriority honours the reversePriority flag of the caller: with
\* the flag false every block goes to the arrived, uncompleted process with
\* the smallest numeric priority, with the flag true to the one with the
\* largest (all priorities defined, as the caller ensures before the call).
C8_ReverseFlagHonoured ==
  (/\ Done /\ algorithm = "Priority"
   /\ \A i \in DOMAIN processes : processes[i].priority.defined) =>
    LET eo == result.executionOrder
    IN \A k \in DOMAIN eo :
         LET s == InputIndex(eo[k].processId)
         IN \A e \in Eligible(eo, k) :
              IF reversePriority
              THEN processes[s].priority.value >= processes[e].priority.value
              ELSE processes[s].priority.value <= processes[e].priority.value

\* Two eligible processes have the same priority: both lack one, or both
\* carry the same number.
SamePriority(a, b) ==
  \/ ~a.priority.defined /\ ~b.priority.defined
  \/ /\ a.priority.defined /\ b.priority.defined
     /\ a.priority.value = b.priority.value

\* C9: in schedulePriority a process without a priority is never selected at
\* a decision point where an arrived, uncompleted process with a priority
\* exists, and among the eligible processes of the selected one's priority
\* (a number, or missing) the earliest in input order is the selected one.
C9_MissingPriorityLast ==
  (Done /\ algorithm = "Priority") =>
    LET eo == result.executionOrder
    IN \A k \in DOMAIN eo :
         LET s == InputIndex(eo[k].processId)
         IN /\ s \in Eligible(eo, k)
            /\ (\E e \in Eligible(eo, k) : processes[e].priority.defined)
                 => processes[s].priority.defined
            /\ \A e \in Eligible(eo, k) :
                 SamePriority(processes[e], processes[s]) => s <= e

\* A Priority result with a decision where a process without a priority,
\* earlier in the input, was passed over for one with a priority.
C9_Witness ==
  /\ Done /\ algorithm = "Priority"
  /\ LET eo == result.executionOrder
     IN \E k \in DOMAIN eo :
          LET s == InputIndex(eo[k].processId)
          IN /\ processes[s].priority.defined
             /\ \E e \in Eligible(eo, k) :
                  e < s /\ ~processes[e].priority.defined

\* Position in processQueue of the object with this id.
QueueIndex(id) == CHOOSE i \in DOMAIN processQueue : processQueue[i].id = id

\* Position in the ready queue of a reference (0 when it is not queued).
QueuePosition(ref) ==
  IF \E k \in DOMAIN readyQueue : readyQueue[k] = ref
  THEN CHOOSE k \in DOMAIN readyQueue : readyQueue[k] = ref
  ELSE 0

\* The objects of processQueue that arrive during the block (after its
\* start, up to and including its end): those the arrival scan at the start
\* of the block had not pushed yet.
ArrivedDuring(block) ==
  {i \in DOMAIN processQueue :
     /\ block.startTime < processQueue[i].arrivalTime
     /\ processQueue[i].arrivalTime <= block.endTime}

\* C10: in scheduleRoundRobin, when a slice of p ends at t with time left for
\* p, every process not queued before with arrivalTime <= t (t included) is
\* in the ready queue ahead of p, in arrival order, and so gets its next
\* slice before the next slice of p.
C10_ArrivalsAheadOfPreempted ==
  (algorithm = "RoundRobin" /\ executionOrder # <<>>) =>
    LET eo == executionOrder
        last == eo[Len(eo)]
        p == QueueIndex(last.processId)
    IN /\ (pc = "loop" /\ processQueue[p].remainingTime > 0) =>
            /\ readyQueue # <<>>
            /\ readyQueue[Len(readyQueue)] = p
            /\ \A q \in ArrivedDuring(last) :
                 /\ QueuePosition(q) > 0
                 /\ QueuePosition(q) < Len(readyQueue)
            /\ \A q1, q2 \in ArrivedDuring(last) :
                 q1 < q2 => QueuePosition(q1) < QueuePosition(q2)
       /\ \A i, j \in DOMAIN eo :
            (/\ i < j
             /\ eo[i].processId = eo[j].processId
             /\ \A k \in (i + 1)..(j - 1) : eo[k].processId # eo[i].processId)
            => \A q \in ArrivedDuring(eo[i]) :
                 \E k \in (i + 1)..(j - 1) :
                   eo[k].processId = processQueue[q].id

\* A Round-Robin run right after a slice that left its process unfinished
\* and during which (or at whose end) two other processes arrived.
C10_Witness ==
  /\ algorithm = "RoundRobin" /\ pc = "loop" /\ executionOrder # <<>>
  /\ LET last == executionOrder[Len(executionOrder)]
         p == QueueIndex(last.processId)
     IN /\ processQueue[p].remainingTime > 0
        /\ Cardinality(ArrivedDuring(last)) >= 2


\* What a process still has to run when block k starts: its burstTime less
\* the blocks it has before k.
RemainingBefore(eo, k) ==
  InputProcess(eo[k].processId).burstTime
    - SumBlocks(SubSeq(eo, 1, k - 1), eo[k].processId)

BlockLength(b) == b.endTime - b.startTime

\* C11: in scheduleRoundRobin (timeQuantum > 0) every block has length
\* min(timeQuantum, remaining time of the process before the slice), so the
\* length lies in 1..timeQuantum and a block shorter than timeQuantum is the
\* last block of its process.
C11_SliceLength ==
  algorithm = "RoundRobin" =>
    LET eo == executionOrder
    IN \A k \in DOMAIN eo :
         /\ BlockLength(eo[k]) = Min(timeQuantum, RemainingBefore(eo, k))
         /\ BlockLength(eo[k]) >= 1
         /\ BlockLength(eo[k]) <= timeQuantum
         /\ BlockLength(eo[k]) < timeQuantum =>
              /\ BlockLength(eo[k]) = RemainingBefore(eo, k)
              /\ \A j \in DOMAIN eo : j > k => eo[j].processId # eo[k].processId

\* A Round-Robin result with a block as long as the quantum and a block
\* shorter than the quantum.
C11_Witness ==
  /\ Done /\ algorithm = "RoundRobin"
  /\ LET eo == result.executionOrder
     IN /\ \E k \in DOMAIN eo : BlockLength(eo[k]) = timeQuantum
        /\ \E k \in DOMAIN eo : BlockLength(eo[k]) < timeQuantum


\* The work done for a process by the first k blocks.
DoneBy(eo, k, id) == SumBlocks(SubSeq(eo, 1, k), id)

\* The processes (positions in the caller's list) that wait in the ready
\* queue when block k has ended: arrived by then, unfinished, and not the
\* process of block k itself.
WaitingAfter(eo, k) ==
  {i \in DOMAIN processes :
     /\ processes[i].id # eo[k].processId
     /\ processes[i].arrivalTime <= eo[k].endTime
     /\ DoneBy(eo, k, processes[i].id) < processes[i].burstTime}

\* C17: the Round-Robin ready queue is FIFO: between two consecutive slices
\* of a process, every other process that was in the ready queue when the
\* earlier slice ended gets exactly one slice.  (The first conjunct ties
\* the queue's content after a slice to the timeline.)
C17_FifoReadyQueue ==
  (algorithm = "RoundRobin" /\ executionOrder # <<>>) =>
    LET eo == executionOrder
        n == Len(eo)
    IN /\ (pc = "loop" /\ currentTime = eo[n].endTime) =>
            {processQueue[readyQueue[k]].id : k \in DOMAIN readyQueue}
              \ {eo[n].processId}
            = {processes[i].id : i \in WaitingAfter(eo, n)}
       /\ \A i, j \in DOMAIN eo :
            (/\ i < j
             /\ eo[i].processId = eo[j].processId
             /\ \A k \in (i + 1)..(j - 1) : eo[k].processId # eo[i].processId)
            => \A q \in WaitingAfter(eo, i) :
                 Cardinality({k \in (i + 1)..(j - 1) :
                                eo[k].processId = processes[q].id}) = 1

\* A Round-Robin result in which two other processes each ran once between
\* two consecutive slices of a process.
C17_Witness ==
  /\ Done /\ algorithm = "RoundRobin"
  /\ LET eo == result.executionOrder
     IN \E i, j \in DOMAIN eo :
          /\ i < j
          /\ eo[i].processId = eo[j].processId
          /\ \A k \in (i + 1)..(j - 1) : eo[k].processId # eo[i].processId
          /\ Cardinality(WaitingAfter(eo, i)) >= 2

\* C18: in scheduleRoundRobin no process is in the ready queue twice, every
\* queued process has remainingTime > 0, no completed process is queued,
\* and at the top of each loop iteration, after the arrival scan, every
\* process that has arrived and is not completed is in the queue.
C18_ReadyQueueInvariant ==
  (algorithm = "RoundRobin" /\ pc # "call") =>
    LET scanned == IF pc = "loop"
                   THEN ArrivalScan(processQueue, processIndex, currentTime)
                   ELSE processIndex
        queue == readyQueue \o Arrived(processIndex, scanned)
        completed == {processMetrics[k].id : k \in DOMAIN processMetrics}
    IN /\ \A j, k \in DOMAIN queue : j # k => queue[j] # queue[k]
       /\ \A k \in DOMAIN queue :
            /\ processQueue[queue[k]].remainingTime > 0
            /\ processQueue[queue[k]].id \notin completed
       /\ pc = "loop" =>
            \A i \in DOMAIN processQueue :
              (/\ processQueue[i].arrivalTime <= currentTime
               /\ processQueue[i].id \notin completed)
              => \E k \in DOMAIN queue : queue[k] = i

\* The top of a Round-Robin iteration with one process queued, one
\* completed and one that has not arrived yet.
C18_Witness ==
  /\ algorithm = "RoundRobin" /\ pc = "loop"
  /\ Len(readyQueue) >= 1
  /\ processMetrics # <<>>
  /\ processIndex < Len(processQueue)

\* C19: no block starts before the arrivalTime of its process, and at every
\* tick before the first block or in a gap between consecutive blocks no
\* process that has arrived is uncompleted (the CPU idles only when nothing
\* is eligible).
C19_WorkConserving ==
  Done =>
    LET eo == result.executionOrder
    IN \A k \in DOMAIN eo :
         /\ eo[k].startTime >= InputProcess(eo[k].processId).arrivalTime
         /\ LET idleFrom == IF k = 1 THEN 0 ELSE eo[k - 1].endTime
            IN \A t \in idleFrom..(eo[k].startTime - 1) :
                 \A i \in DOMAIN processes :
                   processes[i].arrivalTime <= t
                     => DoneBy(eo, k - 1, processes[i].id)
                          = processes[i].burstTime

\* A Round-Robin result where the CPU idled in a gap between two blocks
\* and a process had to wait after its arrival.
C19_Witness ==
  /\ Done /\ algorithm = "RoundRobin"
  /\ LET eo == result.executionOrder
     IN /\ \E k \in 2..Len(eo) : eo[k].startTime > eo[k - 1].endTime
        /\ \E k \in DOMAIN eo :
             /\ BlocksOf(SubSeq(eo, 1, k - 1), eo[k].processId) = {}
             /\ eo[k].startTime > InputProcess(eo[k].processId).arrivalTime


\* C14: no policy modifies its input: no step of a call changes the caller's
\* process list (its elements, their order, or a field of a record).
C14_InputUnmodified == [][processes' = processes]_vars

\* A Round-Robin result whose run sorted its copy into another order than
\* the caller's list and counted the remainingTime of the copies down.
C14_Witness ==
  /\ Done /\ algorithm = "RoundRobin"
  /\ \E i \in DOMAIN processes : processQueue[i].id # processes[i].id
  /\ \A i \in DOMAIN processQueue : processQueue[i].remainingTime = 0

\* C15: processMetrics is in completion order: the completionTimes of
\* consecutive entries do not decrease, and a process has its entry exactly
\* from the step on at which its remaining work reaches zero (in every
\* state the processes with an entry are those whose blocks add up to their
\* burstTime).
C15_MetricsInCompletionOrder ==
  pc # "call" =>
    /\ \A k \in 2..Len(processMetrics) :
         processMetrics[k - 1].completionTime
           <= processMetrics[k].completionTime
    /\ {processMetrics[k].id : k \in DOMAIN processMetrics}
         = {processes[i].id : i \in
              {j \in DOMAIN processes :
                 SumBlocks(executionOrder, processes[j].id)
                   = processes[j].burstTime}}
    /\ \A k \in DOMAIN processMetrics :
         processMetrics[k].completionTime
           = executionOrder[LastBlock(executionOrder,
                                      processMetrics[k].id)].endTime

\* A Round-Robin run in which a process that started later has completed
\* while a process that has already run is still unfinished.
C15_Witness ==
  /\ algorithm = "RoundRobin" /\ pc = "loop"
  /\ processMetrics # <<>>
  /\ \E i \in DOMAIN processes :
       /\ SumBlocks(executionOrder, processes[i].id) > 0
       /\ SumBlocks(executionOrder, processes[i].id) < processes[i].burstTime

\* Total length of the blocks so far.
RECURSIVE TotalRun(_)
TotalRun(eo) ==
  IF eo = <<>> THEN 0 ELSE BlockLength(Head(eo)) + TotalRun(Tail(eo))

\* C16: for every valid process set every policy terminates with all
\* processes completed; every loop iteration either runs a process (the
\* total remaining work shrinks) or advances the idle clock by one tick
\* towards a process that has yet to arrive.
C16_Terminates ==
  /\ <>(pc = "done" /\ Len(result.processMetrics) = Len(processes))
  /\ [][(pc = "loop" /\ pc' = "loop") =>
          \/ TotalRun(executionOrder') > TotalRun(executionOrder)
          \/ /\ executionOrder' = executionOrder
             /\ currentTime' = currentTime + 1
             /\ \E i \in DOMAIN processes :
                  processes[i].arrivalTime > currentTime]_vars

\* A result of a run that idled for two ticks before the first arrival.
C16_Witness ==
  /\ Done /\ Len(processes) >= 2
  /\ result.executionOrder[1].startTime >= 2


HasDuplicateIds ==
  \E i, j \in DOMAIN processes : i # j /\ processes[i].id = processes[j].id

\* C12: scheduleRoundRobin called with timeQuantum <= 0 on a non-empty
\* process set fails before any execution block or metrics entry is
\* produced: it creates no block, no entry, and returns no result.
C12_NonPositiveQuantumRejected ==
  (algorithm = "RoundRobin" /\ timeQuantum <= 0) =>
    /\ executionOrder = <<>>
    /\ processMetrics = <<>>
    /\ pc # "done"

\* C13: every policy called with two processes of the same id reports
\* InvalidInput before it creates any simulation state: no copy of the
\* list, no block, no metrics entry, no result.
C13_DuplicateIdsRejected ==
  HasDuplicateIds =>
    /\ sortedProcesses = <<>>
    /\ remainingProcesses = <<>>
    /\ processQueue = <<>>
    /\ executionOrder = <<>>
    /\ processMetrics = <<>>
    /\ pc # "done"

\* C20: in the CPUScheduler component a held non-empty result was computed
\* with the selection (algorithm, timeQuantum, reversePriority) that is
\* current, also when the selection changed while a run was waiting.
C20_ResultOfCurrentSelection ==
  ui.result.executionOrder # <<>> =>
    ui.computedWith =
      Selection(ui.algorithm, ui.timeQuantum, ui.reversePriority)

====
